---- MODULE Spec2Model ----
(***************************************************************************)
(* Model of the bookmark catalog of src/index.tsx (component App): the     *)
(* `bookmarks` state with its localStorage persistence effect, the import  *)
(* (handleFileUpload / FileReader onload / parseBookmarksHTML), the        *)
(* enrichment run (processUnprocessedBookmarks, one step per await),       *)
(* deleteBookmark, and the derived state `categories` and                  *)
(* `filteredBookmarks` with the facet buttons and the search box.          *)
(***************************************************************************)
EXTENDS Integers, Sequences, FiniteSets, TLC

\* ------------------------------------------------------------------ bounds
MaxUserActions == 3  \* uploads, deletes, Process clicks and reloads per behaviour
MaxEntries     == 4  \* entries of a stored catalog the view is derived from

\* ------------------------------------------------------- program constants
BATCH_SIZE   == 10  \* const BATCH_SIZE = 10
IMPORT_LIMIT == 50  \* links.slice(0, 50)

VARIABLES
    bookmarks,      \* useState<BookmarkItem[]>: the catalog, a sequence of entries
    storage,        \* localStorage["my-ai-bookmarks"]: NoItem or the stored text
    isProcessing,   \* useState(false)
    runs,           \* the invocations of processUnprocessedBookmarks of this page load
    pendingReads,   \* FileReader reads started and not yet loaded, with their closure
    nextId,         \* number of ids generateId has handed out
    clock,          \* Date.now(), a logical clock
    deleted,        \* ids passed to deleteBookmark so far
    importLog,      \* the upload / load events so far, in order
    mounted,        \* the first effect of this page load has run
    nActions,       \* user actions so far
    filterCategory, \* useState<string>("All"): the selected facet
    searchQuery     \* useState(""): the text of the search box

vars == <<bookmarks, storage, isProcessing, runs, pendingReads, nextId, clock,
          deleted, importLog, mounted, nActions, filterCategory, searchQuery>>

\* --------------------------------------------------------------- JS values
JUndef  == [t |-> "undefined"]
JNull   == [t |-> "null"]
JStr(s) == [t |-> "string", v |-> s]
JArr(a) == [t |-> "array", v |-> a]

\* ----------------------------------------------------------- the sources
\* An <a> element of the uploaded document: its text and its resolved href.
Anchor(text, href) == [textContent |-> text, href |-> href]

SourceIds == {1, 2}

\* The documents a user may upload: 21 distinct links (three batches); a short
\* document that repeats a link and overlaps the first document; and a long
\* document of 52 links that starts with the links of the first.
Source(s) ==
    IF s = 1
    THEN [i \in 1..21 |-> Anchor(IF i % 2 = 0 THEN "" ELSE "React Docs", i)]
    ELSE IF s = 2
    THEN <<Anchor("Vite", 1), Anchor("Vite again", 1), Anchor("Go", 30)>>
    ELSE [i \in 1..(IMPORT_LIMIT + 2) |-> Anchor("Go", i)]

\* ------------------------------------------------------------ persistence
NoItem == [t |-> "null"]

EntryKeys == {"id", "title", "url", "description", "category", "tags",
              "processed", "addedAt"}

\* JSON.stringify of one entry: a property whose value is undefined is left out.
StringifyEntry(b) ==
    LET present == {k \in EntryKeys : ~(k \in {"description", "category", "tags"}
                                        /\ b[k] = JUndef)}
    IN [k \in present |-> b[k]]

\* JSON.parse of one entry, read through b.<key>: a missing property reads undefined.
ParseEntry(o) ==
    [k \in EntryKeys |-> IF k \in DOMAIN o THEN o[k] ELSE JUndef]

JSONstringify(list) == [t |-> "text", v |-> [i \in DOMAIN list |-> StringifyEntry(list[i])]]

JSONparse(text) == [i \in DOMAIN text.v |-> ParseEntry(text.v[i])]

\* useState initializer: saved ? JSON.parse(saved) : []
LoadBookmarks(saved) == IF saved = NoItem THEN <<>> ELSE JSONparse(saved)

\* The effect declared with an empty dependency list: it runs at mount only.
PersistEffectAtMountOnly(list) == IF storage = NoItem THEN JSONstringify(<<>>) ELSE storage

\* useEffect(() => localStorage.setItem(key, JSON.stringify(bookmarks)), [bookmarks])
PersistEffect(list) == JSONstringify(list)

\* ----------------------------------------------------------------- import
\* links.map(...) without the slice
NewBookmarksUnsliced(links, firstId, t) ==
    [i \in 1..Len(links) |->
          [id          |-> firstId + i,
           title       |-> IF links[i].textContent = "" THEN "Untitled"
                           ELSE links[i].textContent,
           url         |-> links[i].href,
           description |-> JUndef,
           category    |-> JUndef,
           tags        |-> JUndef,
           processed   |-> FALSE,
           addedAt     |-> t]]

\* links.slice(0, 50).map(link => ({id, title, url, processed: false, addedAt}))
NewBookmarks(links, firstId, t) ==
    LET n == IF Len(links) < IMPORT_LIMIT THEN Len(links) ELSE IMPORT_LIMIT
    IN [i \in 1..n |->
          [id          |-> firstId + i,
           title       |-> IF links[i].textContent = "" THEN "Untitled"
                           ELSE links[i].textContent,
           url         |-> links[i].href,
           description |-> JUndef,
           category    |-> JUndef,
           tags        |-> JUndef,
           processed   |-> FALSE,
           addedAt     |-> t]]

\* newBookmarks.filter(b => !existingUrls.has(b.url)), existingUrls from the closure
UniqueNewBookmarks(newBookmarks, closureBookmarks) ==
    LET existingUrls == {closureBookmarks[i].url : i \in DOMAIN closureBookmarks}
    IN SelectSeq(newBookmarks, LAMBDA b : b.url \notin existingUrls)

\* One more user action, on a mounted page.
UserActs ==
    /\ mounted
    /\ nActions < MaxUserActions
    /\ nActions' = nActions + 1

\* handleFileUpload: starts the read; reader.onload closes over this render's
\* parseBookmarksHTML and so over this render's `bookmarks`.
HandleFileUpload(s) ==
    /\ UserActs
    /\ pendingReads' = Append(pendingReads, [src |-> s, bookmarks |-> bookmarks])
    /\ importLog' = Append(importLog, [ev |-> "upload", src |-> s])
    /\ UNCHANGED <<bookmarks, storage, isProcessing, runs, nextId, clock, deleted,
                   mounted, filterCategory, searchQuery>>

\* reader.onload -> parseBookmarksHTML(html); setBookmarks(prev => [...prev, ...unique])
ReaderOnload(p) ==
    /\ p \in DOMAIN pendingReads
    /\ LET read == pendingReads[p]
           newBookmarks == NewBookmarks(Source(read.src), nextId, clock + 1)
           uniqueNewBookmarks == UniqueNewBookmarks(newBookmarks, read.bookmarks)
       IN /\ bookmarks' = bookmarks \o uniqueNewBookmarks
          /\ nextId' = nextId + Len(newBookmarks)
          /\ importLog' = Append(importLog, [ev |-> "load", src |-> read.src])
    /\ clock' = clock + 1
    /\ storage' = PersistEffect(bookmarks')
    /\ pendingReads' = SubSeq(pendingReads, 1, p - 1)
                        \o SubSeq(pendingReads, p + 1, Len(pendingReads))
    /\ UNCHANGED <<isProcessing, runs, deleted, mounted, nActions,
                   filterCategory, searchQuery>>

\* ----------------------------------------------------------------- delete
\* setBookmarks(prev => prev.filter(b => b.id !== id))
DeleteBookmark(id) ==
    /\ UserActs
    /\ \E i \in DOMAIN bookmarks : bookmarks[i].id = id
    /\ bookmarks' = SelectSeq(bookmarks, LAMBDA b : b.id # id)
    /\ storage' = PersistEffect(bookmarks')
    /\ deleted' = deleted \cup {id}
    /\ UNCHANGED <<isProcessing, runs, pendingReads, nextId, clock, importLog, mounted,
                   filterCategory, searchQuery>>

\* ------------------------------------------------------------------ batches
\* The run taking every entry of the catalog as its input.
UnprocessedUnfiltered(list) == list

\* bookmarks.filter(b => !b.processed)
Unprocessed(list) == SelectSeq(list, LAMBDA b : ~b.processed)

\* Array.prototype.slice(from, to), 0-based, `to` exclusive and clipped
Slice(s, from, to) == SubSeq(s, from + 1, IF to < Len(s) THEN to ELSE Len(s))

RECURSIVE BatchLoop(_, _, _)
\* for (let i = 0; i < unprocessed.length; i += BATCH_SIZE) batches.push(slice(i, i + BATCH_SIZE))
BatchLoop(unprocessed, i, batches) ==
    IF i < Len(unprocessed)
    THEN BatchLoop(unprocessed, i + BATCH_SIZE,
                   Append(batches, Slice(unprocessed, i, i + BATCH_SIZE)))
    ELSE batches

\* The loop bounded by i + BATCH_SIZE <= length: the partial last batch is lost.
BatchesFullOnly(unprocessed) ==
    [k \in 1..(Len(unprocessed) \div BATCH_SIZE) |->
        Slice(unprocessed, (k - 1) * BATCH_SIZE, k * BATCH_SIZE)]

Batches(unprocessed) == BatchLoop(unprocessed, 0, <<>>)

\* ------------------------------------------------------------------ the Map
\* A JavaScript Map keyed by id, kept as the sequence of its values in insertion
\* order: set() on a key already present replaces the value in place.
MapSet(map, id, value) ==
    IF \E i \in DOMAIN map : map[i].id = id
    THEN [i \in DOMAIN map |-> IF map[i].id = id THEN value ELSE map[i]]
    ELSE Append(map, value)

RECURSIVE MapOf(_)
\* new Map(bookmarks.map(b => [b.id, b]))
MapOf(list) ==
    IF list = <<>> THEN <<>>
    ELSE MapSet(MapOf(SubSeq(list, 1, Len(list) - 1)), list[Len(list)].id, list[Len(list)])

\* Array.from(updatedBookmarksMap.values())
MapValues(map) == map

\* -------------------------------------------------------------- the service
\* batch.map(b => ({ title: b.title, url: b.url }))
BatchInput(batch) == [i \in DOMAIN batch |-> [title |-> batch[i].title, url |-> batch[i].url]]

CategoryFor(url) == IF url % 2 = 0 THEN "Backend" ELSE "Frontend"

\* A well-formed response item for the input item `in`.
ItemFor(in) ==
    [t |-> "object", url |-> in.url, category |-> JStr(CategoryFor(in.url)),
     description |-> JStr("a tool"), tags |-> JArr(<<"dev", "tool">>)]

\* An item that carries the url and none of the other properties.
BareItem(in) ==
    [t |-> "object", url |-> in.url, category |-> JUndef, description |-> JUndef,
     tags |-> JUndef]

Rejected     == [rejected |-> TRUE]
Body(text)   == [rejected |-> FALSE, text |-> text]
Garbage      == [kind |-> "garbage"]                 \* text that is not JSON
EmptyText    == [kind |-> "empty"]                   \* "" or undefined
Json(value)  == [kind |-> "json", value |-> value]
JObj(items)  == [t |-> "object", items |-> items]

\* What the classification service may answer to one request: the call rejects,
\* or it resolves with a body that is no JSON, is empty, is JSON null, is an
\* object without items, or is an object with items: one per input item; the
\* same with the first item stripped of its fields and the second replaced by an
\* item for a url ten above the first input's (the url of another batch's entry,
\* or of none); or a well-formed item followed by null.
Responses(input) ==
    LET full == [i \in DOMAIN input |-> ItemFor(input[i])]
        stray == ItemFor([title |-> "", url |-> input[1].url + 10])
    IN { Rejected,
         Body(Garbage),
         Body(Json(JNull)),
         Body(EmptyText),
         Body(Json(JObj(JUndef))),
         Body(Json(JObj(JArr(full)))),
         Body(Json(JObj(JArr(<<BareItem(input[1]), stray>> \o SubSeq(full, 3, Len(full)))))),
         Body(Json(JObj(JArr(<<full[1], JNull>>)))) }

\* ------------------------------------------------- history of the responses
\* The call rejects, or no handler can read its body: the text is no JSON, the
\* JSON is null, or the items hold a null.
Raises(response) ==
    \/ response.rejected
    \/ response.text.kind = "garbage"
    \/ /\ response.text.kind = "json"
       /\ \/ response.text.value = JNull
          \/ /\ response.text.value.items.t = "array"
             /\ \E k \in DOMAIN response.text.value.items.v :
                   response.text.value.items.v[k] = JNull

\* The items of a response that does not raise.
ItemsOf(response) ==
    IF response.text.kind = "empty" THEN <<>>
    ELSE IF response.text.value.items.t = "array" THEN response.text.value.items.v
    ELSE <<>>

\* What a response that does not raise answers: for the id of each entry of the
\* batch that is the first with its url and whose url some item carries, the last
\* such item.
AnsweredBy(batch, response) ==
    LET items == ItemsOf(response)
        hit == {i \in DOMAIN batch :
                  /\ \E k \in DOMAIN items : items[k].url = batch[i].url
                  /\ \A j \in 1..(i - 1) : batch[j].url # batch[i].url}
        entry(id) == batch[CHOOSE i \in hit : batch[i].id = id]
        last(url) == CHOOSE k \in DOMAIN items :
                        /\ items[k].url = url
                        /\ \A m \in DOMAIN items : items[m].url = url => m <= k
    IN [id \in {batch[i].id : i \in hit} |-> items[last(entry(id).url)]]

\* The urls of the items of a response that does not raise which are the url
\* of no entry of the batch.
MissedBy(batch, response) ==
    LET items == ItemsOf(response)
    IN {items[k].url : k \in {k \in DOMAIN items :
                                 \A i \in DOMAIN batch : batch[i].url # items[k].url}}

\* The response holds one item per input item, in the order of the input, with
\* the input's url, a category, a description and tags.
OnePerInput(batch, response) ==
    /\ ~Raises(response)
    /\ LET items == ItemsOf(response)
       IN /\ Len(items) = Len(batch)
          /\ \A k \in DOMAIN items :
                /\ items[k].url = batch[k].url
                /\ items[k].category.t = "string" /\ items[k].category.v # ""
                /\ items[k].description.t = "string"
                /\ items[k].tags.t = "array"

\* The run's record of what it has heard: responses received, responses that
\* raised, the items that answered entries of its batches, the urls of the items
\* that answered none, and whether every response so far held one item per
\* input item.
Heard(run, response) ==
    LET new == IF Raises(response) THEN <<>>
               ELSE AnsweredBy(run.batches[run.idx], response)
    IN [run EXCEPT
          !.received = @ + 1,
          !.raised = @ + (IF Raises(response) THEN 1 ELSE 0),
          !.answered = [id \in DOMAIN @ \cup DOMAIN new |->
                           IF id \in DOMAIN new THEN new[id] ELSE @[id]],
          !.missed = IF Raises(response) THEN @
                     ELSE @ \cup MissedBy(run.batches[run.idx], response),
          !.complete = @ /\ OnePerInput(run.batches[run.idx], response)]

\* -------------------------------------------------------------------- merge
Threw(map) == [map |-> map, threw |-> TRUE]
Merged(map) == [map |-> map, threw |-> FALSE]

RECURSIVE MergeItemsUnguarded(_, _, _, _)
\* The forEach body without `if (original)`: reading original.id of undefined
\* throws when no entry of the batch has the item's url.
MergeItemsUnguarded(map, batch, items, k) ==
    IF k > Len(items) THEN Merged(map)
    ELSE LET processedItem == items[k]
         IN IF processedItem = JNull THEN Threw(map)
            ELSE LET found == {i \in DOMAIN batch : batch[i].url = processedItem.url}
                 IN IF found = {}
                    THEN Threw(map)
                    ELSE LET original == batch[CHOOSE i \in found : \A j \in found : i <= j]
                             updated == [original EXCEPT
                                            !.processed = TRUE,
                                            !.category = processedItem.category,
                                            !.description = processedItem.description,
                                            !.tags = processedItem.tags]
                         IN MergeItemsUnguarded(MapSet(map, original.id, updated),
                                                batch, items, k + 1)

RECURSIVE MergeItems(_, _, _, _)
\* result.items.forEach(processedItem => { const original = batch.find(...); ... })
\* from item k on; reading .url of a null item throws a TypeError.
MergeItems(map, batch, items, k) ==
    IF k > Len(items) THEN Merged(map)
    ELSE LET processedItem == items[k]
         IN IF processedItem = JNull THEN Threw(map)
            ELSE LET found == {i \in DOMAIN batch : batch[i].url = processedItem.url}
                 IN IF found = {}
                    THEN MergeItems(map, batch, items, k + 1)
                    ELSE LET original == batch[CHOOSE i \in found : \A j \in found : i <= j]
                             updated == [original EXCEPT
                                            !.processed = TRUE,
                                            !.category = processedItem.category,
                                            !.description = processedItem.description,
                                            !.tags = processedItem.tags]
                         IN MergeItems(MapSet(map, original.id, updated), batch, items, k + 1)

\* From the await to the end of the forEach: the call rejects, JSON.parse throws,
\* result.items of null throws, result.items?.forEach skips a missing items.
HandleResponse(map, batch, response) ==
    IF response.rejected THEN Threw(map)
    ELSE IF response.text.kind = "garbage" THEN Threw(map)
    ELSE LET result == IF response.text.kind = "empty" THEN JObj(JArr(<<>>))
                       ELSE response.text.value
         IN IF result = JNull THEN Threw(map)
            ELSE IF result.items = JUndef \/ result.items = JNull THEN Merged(map)
            ELSE MergeItems(map, batch, result.items.v, 1)

\* The commit left out of the loop body.
CommitBatchSkipped(prev, map) == prev

\* setBookmarks(Array.from(updatedBookmarksMap.values())) after each batch
CommitBatch(prev, map) == MapValues(map)

\* ---------------------------------------------------------------------- run
\* The button without its disabled attribute.
ProcessButtonAlwaysEnabled == TRUE

\* The button is disabled while isProcessing.
ProcessButtonEnabled == ~isProcessing

\* The function has returned: its locals are gone; what is kept of the run is
\* how it ended, where, the alerts it raised, what it has heard, and the ids of
\* the batches it left without a commit.
Returned(run, pc, alerts) ==
    [pc |-> pc, idx |-> run.idx, nBatches |-> Len(run.batches), alerts |-> alerts,
     received |-> run.received, raised |-> run.raised, answered |-> run.answered,
     missed |-> run.missed, complete |-> run.complete,
     left |-> IF pc = "failed"
              THEN UNION {{run.batches[k][i].id : i \in DOMAIN run.batches[k]} :
                          k \in run.idx..Len(run.batches)}
              ELSE {}]

\* The try/catch placed inside the loop: alert, then on to the next batch.
OnErrorContinue(run, map) ==
    IF run.idx < Len(run.batches)
    THEN [run EXCEPT !.idx = @ + 1, !.alerts = @ + 1]
    ELSE Returned(run, "done", run.alerts + 1)

\* catch: console.error, alert(...); the loop is left.
OnError(run, map) == Returned(run, "failed", run.alerts + 1)

\* End of one loop iteration: the next iteration dispatches the next batch, or
\* the loop is over.
OnCommitted(run, map) ==
    IF run.idx < Len(run.batches)
    THEN [run EXCEPT !.idx = @ + 1, !.updatedBookmarksMap = map]
    ELSE Returned(run, "done", run.alerts)

\* processUnprocessedBookmarks up to its first await
ProcessUnprocessedBookmarks ==
    /\ ProcessButtonEnabled
    /\ UserActs
    /\ LET unprocessed == Unprocessed(bookmarks)
       IN IF Len(unprocessed) = 0
          THEN UNCHANGED <<isProcessing, runs>>
          ELSE /\ isProcessing' = TRUE
               /\ runs' = Append(runs,
                     [unprocessed |-> unprocessed,
                      batches |-> Batches(unprocessed),
                      updatedBookmarksMap |-> MapOf(bookmarks),
                      idx |-> 1,
                      pc |-> "awaiting",
                      alerts |-> 0,
                      received |-> 0,
                      raised |-> 0,
                      answered |-> <<>>,
                      missed |-> {},
                      complete |-> TRUE,
                      startClock |-> clock,
                      startDeleted |-> deleted])
    /\ UNCHANGED <<bookmarks, storage, pendingReads, nextId, clock, deleted, importLog,
                   mounted, filterCategory, searchQuery>>

\* setIsProcessing(false) as the last statement of the try block, after the loop
FinallyAfterLoopOnly(after) == IF after.pc = "done" THEN FALSE ELSE isProcessing

\* finally { setIsProcessing(false) }: runs when the function leaves the try
\* block, by the end of the loop or by the catch.
Finally(after) == IF after.pc = "awaiting" THEN isProcessing ELSE FALSE

\* processUnprocessedBookmarks from one await to the next, or to its end
ServiceResponds(r, response) ==
    /\ runs[r].pc = "awaiting"
    /\ LET run == Heard(runs[r], response)
           outcome == HandleResponse(run.updatedBookmarksMap, run.batches[run.idx], response)
           after == IF outcome.threw THEN OnError(run, outcome.map)
                    ELSE OnCommitted(run, outcome.map)
       IN /\ runs' = [runs EXCEPT ![r] = after]
          /\ bookmarks' = IF outcome.threw THEN bookmarks
                          ELSE CommitBatch(bookmarks, outcome.map)
          /\ isProcessing' = Finally(after)
    /\ storage' = PersistEffect(bookmarks')
    /\ UNCHANGED <<pendingReads, nextId, clock, deleted, importLog, mounted, nActions,
                   filterCategory, searchQuery>>

\* ------------------------------------------------------------------ reload
\* The page is loaded again: every useState is initialised anew, the reads and
\* runs of the old page are gone.
Reload ==
    /\ UserActs
    /\ bookmarks' = LoadBookmarks(storage)
    /\ isProcessing' = FALSE
    /\ runs' = <<>>
    /\ pendingReads' = <<>>
    /\ mounted' = FALSE
    /\ filterCategory' = "All"
    /\ searchQuery' = ""
    /\ UNCHANGED <<storage, nextId, clock, deleted, importLog>>

\* The first run of the persistence effect, after the first render.
MountEffect ==
    /\ ~mounted
    /\ mounted' = TRUE
    /\ storage' = PersistEffect(bookmarks)
    /\ UNCHANGED <<bookmarks, isProcessing, runs, pendingReads, nextId, clock, deleted,
                   importLog, nActions, filterCategory, searchQuery>>

\* ------------------------------------------------------------------ strings
\* The UTF-16 code units of the strings that occur in this model.
CodeUnits(s) ==
    CASE s = "" -> <<>>
      [] s = "All" -> <<65, 108, 108>>
      [] s = "Uncategorized" -> <<85, 110, 99, 97, 116, 101, 103, 111, 114, 105, 122, 101, 100>>
      [] s = "Frontend" -> <<70, 114, 111, 110, 116, 101, 110, 100>>
      [] s = "Backend" -> <<66, 97, 99, 107, 101, 110, 100>>
      [] s = "backend" -> <<98, 97, 99, 107, 101, 110, 100>>
      [] s = "React Docs" -> <<82, 101, 97, 99, 116, 32, 68, 111, 99, 115>>
      [] s = "Untitled" -> <<85, 110, 116, 105, 116, 108, 101, 100>>
      [] s = "Go" -> <<71, 111>>
      [] s = "Vite" -> <<86, 105, 116, 101>>
      [] s = "Vite again" -> <<86, 105, 116, 101, 32, 97, 103, 97, 105, 110>>
      [] s = "a tool" -> <<97, 32, 116, 111, 111, 108>>
      [] s = "A REACT guide" -> <<65, 32, 82, 69, 65, 67, 84, 32, 103, 117, 105, 100, 101>>
      [] s = "dev" -> <<100, 101, 118>>
      [] s = "tool" -> <<116, 111, 111, 108>>
      [] s = "React" -> <<82, 101, 97, 99, 116>>
      [] s = "react" -> <<114, 101, 97, 99, 116>>
      [] s = "REACT" -> <<82, 69, 65, 67, 84>>

\* String.prototype.toLowerCase on code units: A..Z become a..z.
ToLowerCase(u) == [i \in DOMAIN u |-> IF u[i] \in 65..90 THEN u[i] + 32 ELSE u[i]]

\* String.prototype.includes: v occurs in u at some offset.
Includes(u, v) == \E k \in 0..(Len(u) - Len(v)) : SubSeq(u, k + 1, k + Len(v)) = v

\* The comparison of Array.prototype.sort() without a comparator: the strings
\* are ordered by their code units, a proper prefix before the longer string.
SortsBefore(a, b) ==
    LET u == CodeUnits(a)
        v == CodeUnits(b)
    IN \E k \in 1..(Len(u) + 1) :
          /\ k <= Len(v)
          /\ \A j \in 1..(k - 1) : u[j] = v[j]
          /\ k = Len(u) + 1 \/ u[k] < v[k]

\* a string placed into a sorted sequence, before the first element it sorts before
Insert(sorted, a) ==
    LET after == {i \in DOMAIN sorted : SortsBefore(a, sorted[i])}
        at == IF after = {} THEN Len(sorted) + 1
              ELSE CHOOSE i \in after : \A j \in after : i <= j
    IN SubSeq(sorted, 1, at - 1) \o <<a>> \o SubSeq(sorted, at, Len(sorted))

RECURSIVE Sort(_)
\* Array.prototype.sort() of strings
Sort(strings) ==
    IF strings = <<>> THEN <<>>
    ELSE Insert(Sort(SubSeq(strings, 1, Len(strings) - 1)), strings[Len(strings)])

\* --------------------------------------------------------------------- view
\* A value in a condition: undefined, null and the empty string are falsy.
Truthy(value) == value.t = "string" /\ value.v # ""

RECURSIVE CatsOf(_)
\* const cats = new Set(); bookmarks.forEach(b => { if (b.category) cats.add(b.category) })
\* as Array.from(cats): the values in the order of their first insertion.
CatsOf(list) ==
    IF list = <<>> THEN <<>>
    ELSE LET cats == CatsOf(SubSeq(list, 1, Len(list) - 1))
             b == list[Len(list)]
         IN IF Truthy(b.category) /\ ~(\E i \in DOMAIN cats : cats[i] = b.category.v)
            THEN Append(cats, b.category.v)
            ELSE cats

\* The facet list with the set's values left in insertion order.
CategoriesUnsorted(list) == <<"All">> \o CatsOf(list) \o <<"Uncategorized">>

\* const categories = ["All", ...Array.from(cats).sort(), "Uncategorized"]
Categories(list) == <<"All">> \o Sort(CatsOf(list)) \o <<"Uncategorized">>

\* The search that compares the text as it is typed and stored.
MatchesSearchCaseSensitive(b, query) ==
    LET q == CodeUnits(query)
    IN \/ Includes(CodeUnits(b.title), q)
       \/ b.description.t = "string" /\ Includes(CodeUnits(b.description.v), q)
       \/ /\ b.tags.t = "array"
          /\ \E k \in DOMAIN b.tags.v : Includes(CodeUnits(b.tags.v[k]), q)

\* matchesSearch: title, description?. and tags?.some, all lower-cased; an
\* undefined description or tags yields undefined, which filter reads as false.
MatchesSearch(b, query) ==
    LET q == ToLowerCase(CodeUnits(query))
    IN \/ Includes(ToLowerCase(CodeUnits(b.title)), q)
       \/ b.description.t = "string" /\ Includes(ToLowerCase(CodeUnits(b.description.v)), q)
       \/ /\ b.tags.t = "array"
          /\ \E k \in DOMAIN b.tags.v : Includes(ToLowerCase(CodeUnits(b.tags.v[k])), q)

\* matchesCategory
MatchesCategory(b, facet) ==
    IF facet = "All" THEN TRUE
    ELSE IF facet = "Uncategorized" THEN ~Truthy(b.category)
    ELSE b.category.t = "string" /\ b.category.v = facet

\* const filteredBookmarks = bookmarks.filter(b => matchesSearch && matchesCategory)
FilteredBookmarks(list, query, facet) ==
    SelectSeq(list, LAMBDA b : MatchesSearch(b, query) /\ MatchesCategory(b, facet))

\* onClick={() => setFilterCategory(cat)} on a button of the facet list
SetFilterCategory(cat) ==
    /\ mounted
    /\ filterCategory' = cat
    /\ UNCHANGED <<bookmarks, storage, isProcessing, runs, pendingReads, nextId, clock,
                   deleted, importLog, mounted, nActions, searchQuery>>

\* onChange={(e) => setSearchQuery(e.target.value)} on the search box
SetSearchQuery(query) ==
    /\ mounted
    /\ searchQuery' = query
    /\ UNCHANGED <<bookmarks, storage, isProcessing, runs, pendingReads, nextId, clock,
                   deleted, importLog, mounted, nActions, filterCategory>>

\* ------------------------------------------------------------------- spec
\* The cards the user clicks Delete on: the first entry, the first entry past
\* one batch, and the last entry.
DeleteChoices(list) == {1, BATCH_SIZE + 1, Len(list)} \cap DOMAIN list

Init ==
    /\ storage = NoItem
    /\ bookmarks = LoadBookmarks(storage)
    /\ isProcessing = FALSE
    /\ runs = <<>>
    /\ pendingReads = <<>>
    /\ nextId = 0
    /\ clock = 0
    /\ deleted = {}
    /\ importLog = <<>>
    /\ mounted = FALSE
    /\ nActions = 0
    /\ filterCategory = "All"
    /\ searchQuery = ""

\* The outstanding call of a run returns or fails.
ServiceReturns ==
    \E r \in DOMAIN runs :
        /\ runs[r].pc = "awaiting"
        /\ \E response \in Responses(BatchInput(runs[r].batches[runs[r].idx])) :
              ServiceResponds(r, response)

Next ==
    \/ \E s \in SourceIds : HandleFileUpload(s)
    \/ \E p \in DOMAIN pendingReads : ReaderOnload(p)
    \/ \E i \in DeleteChoices(bookmarks) : DeleteBookmark(bookmarks[i].id)
    \/ ProcessUnprocessedBookmarks
    \/ ServiceReturns
    \/ Reload
    \/ MountEffect

Spec == Init /\ [][Next]_vars

\* Every call to the service eventually returns or fails.
FairSpec == Spec /\ WF_vars(ServiceReturns)

\* ------------------------------------------------------------ import spec
\* The user imports documents, long ones among them, and does nothing else.
ImportSourceIds == {1, 2, 3}

ImportNext ==
    \/ MountEffect
    \/ \E s \in ImportSourceIds : HandleFileUpload(s)
    \/ \E p \in DOMAIN pendingReads : ReaderOnload(p)

ImportSpec == Init /\ [][ImportNext]_vars

\* -------------------------------------------------------------- view spec
\* The page shows a stored catalog and the user works the facet list and the
\* search box; the catalog stays as it is.
\* What an entry of such a catalog may look like: fresh from an import, or
\* enriched by an item with all, some or empty fields.
Shapes ==
    { [title |-> "React Docs", category |-> JUndef, description |-> JUndef,
       tags |-> JUndef, processed |-> FALSE],
      [title |-> "Untitled", category |-> JStr("Frontend"), description |-> JStr("a tool"),
       tags |-> JArr(<<"dev", "React">>), processed |-> TRUE],
      [title |-> "Go", category |-> JStr("Backend"), description |-> JStr("A REACT guide"),
       tags |-> JArr(<<"dev">>), processed |-> TRUE],
      [title |-> "Vite", category |-> JStr("backend"), description |-> JUndef,
       tags |-> JUndef, processed |-> TRUE],
      [title |-> "Vite again", category |-> JStr(""), description |-> JStr(""),
       tags |-> JArr(<<>>), processed |-> TRUE] }

\* The entry with id and url i of the given shape.
Shaped(i, shape) ==
    [id |-> i, title |-> shape.title, url |-> i, description |-> shape.description,
     category |-> shape.category, tags |-> shape.tags, processed |-> shape.processed,
     addedAt |-> 1]

StoredCatalogs ==
    UNION {{[i \in 1..n |-> Shaped(i, shapes[i])] : shapes \in [1..n -> Shapes]} :
           n \in 0..MaxEntries}

\* What the user types into the search box.
Queries == {"", "react", "REACT", "tool"}

ViewInit ==
    /\ \E list \in StoredCatalogs :
          /\ storage = JSONstringify(list)
          /\ bookmarks = LoadBookmarks(storage)
    /\ isProcessing = FALSE
    /\ runs = <<>>
    /\ pendingReads = <<>>
    /\ nextId = Len(bookmarks)
    /\ clock = 1
    /\ deleted = {}
    /\ importLog = <<>>
    /\ mounted = TRUE
    /\ nActions = 0
    /\ filterCategory = "All"
    /\ searchQuery = ""

ViewNext ==
    \/ \E k \in DOMAIN Categories(bookmarks) : SetFilterCategory(Categories(bookmarks)[k])
    \/ \E query \in Queries : SetSearchQuery(query)

ViewSpec == ViewInit /\ [][ViewNext]_vars

\* ================================================================== claims
Ids(list) == {list[i].id : i \in DOMAIN list}

Awaiting == {r \in DOMAIN runs : runs[r].pc = "awaiting"}

\* The batch whose request run r has outstanding.
CurrentBatch(r) == runs[r].batches[runs[r].idx]

\* The ids of the batches of an awaiting run from batch k on.
IdsFrom(run, k) == UNION {Ids(run.batches[j]) : j \in {j \in DOMAIN run.batches : j >= k}}

\* C1: an entry deleted with deleteBookmark (in particular while a run is in
\* flight) is absent from the catalog from then on: no later batch commit brings
\* it back.
C1_DeletedStaysDeleted == \A i \in DOMAIN bookmarks : bookmarks[i].id \notin deleted

\* C2: no two entries of the catalog share a url.
C2_UrlUnique ==
    \A i, j \in DOMAIN bookmarks : bookmarks[i].url = bookmarks[j].url => i = j

\* ------------------------------------------------------------------- C3
\* The entry is processed and carries the fields of `item`.
C3_Enriched(b, item) ==
    /\ b.processed
    /\ b.category = item.category
    /\ b.description = item.description
    /\ b.tags = item.tags

\* C3: each batch is committed before the next call: while a run awaits the
\* response for batch k, and after it failed at batch k, every catalog entry that
\* a response to batches 1..k-1 answered is processed with that response's
\* fields; and every catalog entry of batches k..n is unprocessed, until a later
\* run starts.
C3_PartialFailureDurability ==
    \A r \in DOMAIN runs :
        LET run == runs[r]
        IN \A j \in DOMAIN bookmarks :
              LET b == bookmarks[j]
              IN /\ (run.pc \in {"awaiting", "failed"} /\ b.id \in DOMAIN run.answered)
                    => C3_Enriched(b, run.answered[b.id])
                 /\ (run.pc = "failed" /\ r = Len(runs) /\ b.id \in run.left)
                    => ~b.processed
                 /\ (run.pc = "awaiting" /\ b.id \in IdsFrom(run, run.idx))
                    => ~b.processed

\* A run of three batches has failed at its second batch, and the catalog holds
\* entries the first batch processed and entries left unprocessed.
C3_Witness ==
    \E r \in DOMAIN runs :
        /\ runs[r].pc = "failed" /\ runs[r].idx = 2 /\ runs[r].nBatches = 3
        /\ \E i, j \in DOMAIN bookmarks :
              /\ bookmarks[i].id \in DOMAIN runs[r].answered
              /\ bookmarks[j].id \in runs[r].left

\* ------------------------------------------------------------------- C4
\* A string that is there and not empty / an array that is there and not empty.
C4_PresentText(v) == v.t = "string" /\ v.v # ""
C4_PresentList(v) == v.t = "array" /\ v.v # <<>>

\* C4: every processed entry of the catalog has its category, its description
\* and its tags, none of them null, undefined or empty.
C4_ProcessedImpliesComplete ==
    \A i \in DOMAIN bookmarks :
        bookmarks[i].processed =>
            /\ C4_PresentText(bookmarks[i].category)
            /\ C4_PresentText(bookmarks[i].description)
            /\ C4_PresentList(bookmarks[i].tags)

\* ------------------------------------------------------------------- C5
\* The response is a body that deserializes to {items: [{url, category,
\* description, tags}]}: JSON text, an object, an items array, every item an
\* object with the four properties.
C5_WellShaped(response) ==
    /\ ~response.rejected
    /\ response.text.kind = "json"
    /\ response.text.value # JNull
    /\ response.text.value.items.t = "array"
    /\ \A k \in DOMAIN response.text.value.items.v :
          LET item == response.text.value.items.v[k]
          IN /\ item # JNull
             /\ item.category.t = "string"
             /\ item.description.t = "string"
             /\ item.tags.t = "array"

\* C5: a response that arrives and is not of the shape {items: [{url, category,
\* description, tags}]} ends the run as failed, with the catalog untouched and
\* no further batch dispatched.
C5_MalformedIsHardFailure ==
    [][\A r \in DOMAIN runs :
         runs[r].pc = "awaiting" =>
            \A response \in Responses(BatchInput(CurrentBatch(r))) :
               (~response.rejected /\ ~C5_WellShaped(response)
                /\ ServiceResponds(r, response)) =>
                   /\ runs'[r].pc = "failed"
                   /\ bookmarks' = bookmarks]_vars

\* ------------------------------------------------------------------- C6
\* C6: at most one classification-service call is outstanding at any moment;
\* while a call is outstanding the busy flag is set, so no run can be started.
C6_SingleOutstandingCall ==
    /\ Cardinality(Awaiting) <= 1
    /\ Awaiting # {} => isProcessing

\* A run has the call of a later batch outstanding after a delete: the user has
\* acted around the run, earlier calls have returned, and one call is out.
C6_Witness ==
    /\ Cardinality(Awaiting) = 1
    /\ \E r \in Awaiting : runs[r].idx >= 2
    /\ deleted # {}

\* ------------------------------------------------------------------- C7
RECURSIVE C7_Concat(_)
C7_Concat(batches) ==
    IF batches = <<>> THEN <<>>
    ELSE C7_Concat(SubSeq(batches, 1, Len(batches) - 1)) \o batches[Len(batches)]

\* ceil(n / b) for n >= 0, b > 0
C7_Ceil(n, b) == IF n % b = 0 THEN n \div b ELSE (n \div b) + 1

\* C7: the batches of a run are ceil(N/B) in number for the N entries that were
\* unprocessed at its start; all but the last hold exactly B entries and the last
\* between 1 and B; every unprocessed entry is at exactly one place of the
\* batches; the batches in order give the unprocessed entries in catalog order.
C7_BatchCoverage ==
    \A r \in Awaiting :
        LET run == runs[r]
            N == Len(run.unprocessed)
            n == Len(run.batches)
        IN /\ run.unprocessed = Unprocessed(run.updatedBookmarksMap)
              \/ run.idx > 1
           /\ n = C7_Ceil(N, BATCH_SIZE)
           /\ \A k \in 1..(n - 1) : Len(run.batches[k]) = BATCH_SIZE
           /\ n > 0 => Len(run.batches[n]) \in 1..BATCH_SIZE
           /\ \A i \in DOMAIN run.unprocessed :
                 Cardinality({<<k, j>> \in (1..n) \X (1..BATCH_SIZE) :
                                 /\ j <= Len(run.batches[k])
                                 /\ run.batches[k][j].id = run.unprocessed[i].id}) = 1
           /\ C7_Concat(run.batches) = run.unprocessed

\* A run over more than two full batches and a partial one is in flight.
C7_Witness ==
    \E r \in Awaiting :
        /\ Len(runs[r].unprocessed) > 2 * BATCH_SIZE
        /\ Len(runs[r].unprocessed) % BATCH_SIZE # 0

\* A run over an exact multiple of the batch size is in flight.
C7_WitnessExact ==
    \E r \in Awaiting : Len(runs[r].unprocessed) = 2 * BATCH_SIZE

\* ------------------------------------------------------------------- C8
\* The log of one source uploaded and loaded, then uploaded and loaded again.
C8_ImportedTwice(s) ==
    importLog = << [ev |-> "upload", src |-> s], [ev |-> "load", src |-> s],
                   [ev |-> "upload", src |-> s], [ev |-> "load", src |-> s] >>

\* C8: after one source has been imported twice into the empty catalog, the
\* second import starting after the first was applied and nothing else having
\* happened, each distinct url of the source is the url of exactly one entry.
C8_DedupIdempotence ==
    \A s \in SourceIds :
        (C8_ImportedTwice(s) /\ nActions = 2) =>
            \A k \in DOMAIN Source(s) :
                k <= IMPORT_LIMIT =>
                    Cardinality({i \in DOMAIN bookmarks :
                                    bookmarks[i].url = Source(s)[k].href}) = 1

\* ------------------------------------------------------------------- C9
\* C9: a run has raised one alert if a call or the handling of a response raised,
\* and none otherwise; the response that raised is the last one the run received:
\* the run has ended as failed at that batch and dispatched nothing after it.
C9_AbortWithOneNotification ==
    \A r \in DOMAIN runs :
        LET run == runs[r]
        IN /\ run.raised <= 1
           /\ run.alerts = run.raised
           /\ run.pc = "failed" <=> run.raised = 1
           /\ run.pc = "failed" => run.received = run.idx
           /\ run.pc = "awaiting" => run.received = run.idx - 1
           /\ run.pc = "done" => run.received = run.nBatches

\* A run of three batches has failed at its first: one alert, two batches never
\* dispatched, and the busy flag is down.
C9_Witness ==
    \E r \in DOMAIN runs :
        /\ runs[r].pc = "failed" /\ runs[r].alerts = 1
        /\ runs[r].idx = 1 /\ runs[r].nBatches = 3
        /\ ~isProcessing

\* ------------------------------------------------------------------ C10
\* C10: what is stored under the key deserializes to the catalog in memory, the
\* missing key standing for the empty catalog: at start, and after every import,
\* batch commit, delete and reload.
C10_StorageMatchesCatalog == LoadBookmarks(storage) = bookmarks

\* A page load has just read the stored catalog, which holds an entry processed
\* without a category (a property JSON.stringify leaves out).
C10_Witness ==
    /\ ~mounted
    /\ storage # NoItem
    /\ \E i \in DOMAIN bookmarks :
          bookmarks[i].processed /\ bookmarks[i].category = JUndef

\* ------------------------------------------------------------------ C11
\* The entry has no category: none at all, or the empty string.
C11_NoCategory(b) == ~(b.category.t = "string" /\ b.category.v # "")

\* a is before b in ascending case-sensitive order: at the first place where
\* they differ a has the smaller code unit, or a ends there and b goes on.
C11_Ascending(a, b) ==
    LET u == CodeUnits(a)
        v == CodeUnits(b)
        same == {k \in 0..Len(u) : k <= Len(v) /\ SubSeq(u, 1, k) = SubSeq(v, 1, k)}
        d == CHOOSE k \in same : \A j \in same : j <= k
    IN /\ d < Len(v)
       /\ d = Len(u) \/ u[d + 1] < v[d + 1]

\* C11: the facet list is "All", then the distinct non-empty category values of
\* the catalog in ascending case-sensitive order without repeats, then
\* "Uncategorized"; with "Uncategorized" selected and no query the view is
\* exactly the entries without a category, processed or not.
C11_FacetCorrectness ==
    LET facets == Categories(bookmarks)
        n == Len(facets)
        present == {bookmarks[i].category.v :
                       i \in {i \in DOMAIN bookmarks : ~C11_NoCategory(bookmarks[i])}}
    IN /\ n = Cardinality(present) + 2
       /\ facets[1] = "All"
       /\ facets[n] = "Uncategorized"
       /\ {facets[k] : k \in 2..(n - 1)} = present
       /\ \A k \in 2..(n - 2) : C11_Ascending(facets[k], facets[k + 1])
       /\ (filterCategory = "Uncategorized" /\ searchQuery = "")
            => FilteredBookmarks(bookmarks, searchQuery, filterCategory)
                 = SelectSeq(bookmarks, C11_NoCategory)

\* The catalog holds a "Frontend" entry before a "Backend" one, and entries
\* without a category both processed and not; "Uncategorized" is selected.
C11_Witness ==
    /\ filterCategory = "Uncategorized" /\ searchQuery = ""
    /\ Categories(bookmarks) = <<"All", "Backend", "Frontend", "Uncategorized">>
    /\ CatsOf(bookmarks) = <<"Frontend", "Backend">>
    /\ \E i, j \in DOMAIN bookmarks :
          /\ C11_NoCategory(bookmarks[i]) /\ bookmarks[i].processed
          /\ C11_NoCategory(bookmarks[j]) /\ ~bookmarks[j].processed

\* Categories that differ in case only are both listed, the upper case first.
C11_WitnessCase ==
    /\ Categories(bookmarks) = <<"All", "Backend", "Frontend", "backend", "Uncategorized">>
    /\ CatsOf(bookmarks) = <<"backend", "Frontend", "Backend">>

\* ------------------------------------------------------------------ C12
\* Two code units are the same letter, whatever their case.
C12_SameLetter(c, d) ==
    \/ c = d
    \/ c \in 65..90 /\ d = c + 32
    \/ d \in 65..90 /\ c = d + 32

\* The query is contained in the text, ignoring case.
C12_Contains(text, query) ==
    LET u == CodeUnits(text)
        q == CodeUnits(query)
    IN \E k \in 0..(Len(u) - Len(q)) :
          \A j \in 1..Len(q) : C12_SameLetter(u[k + j], q[j])

C12_QueryMatches(b, query) ==
    \/ query = ""
    \/ C12_Contains(b.title, query)
    \/ b.description.t = "string" /\ C12_Contains(b.description.v, query)
    \/ b.tags.t = "array" /\ \E k \in DOMAIN b.tags.v : C12_Contains(b.tags.v[k], query)

C12_FacetMatches(b, facet) ==
    \/ facet = "All"
    \/ facet = "Uncategorized" /\ C11_NoCategory(b)
    \/ facet \notin {"All", "Uncategorized"} /\ b.category = JStr(facet)

\* C12: for the catalog, the query and the selected facet of every state, the
\* filtered view lists exactly the entries whose facet matches and which the
\* query matches (empty, or contained ignoring case in the title, the
\* description or a tag), each once and in catalog order.
C12_FilteredView ==
    LET view == FilteredBookmarks(bookmarks, searchQuery, filterCategory)
        matches == {i \in DOMAIN bookmarks :
                       /\ C12_FacetMatches(bookmarks[i], filterCategory)
                       /\ C12_QueryMatches(bookmarks[i], searchQuery)}
    IN /\ Len(view) = Cardinality(matches)
       /\ \A k \in DOMAIN view :
             view[k] = bookmarks[CHOOSE i \in matches :
                                    Cardinality({j \in matches : j < i}) = k - 1]

\* With "REACT" typed and "Frontend" selected the view shows an entry that has
\* "React" in a tag only, and leaves out entries of the catalog.
C12_Witness ==
    LET view == FilteredBookmarks(bookmarks, searchQuery, filterCategory)
    IN /\ searchQuery = "REACT" /\ filterCategory = "Frontend"
       /\ view # <<>>
       /\ Len(view) < Len(bookmarks)
       /\ \E k \in DOMAIN view : ~C12_Contains(view[k].title, searchQuery)

\* With "react" typed the view shows an entry titled "React Docs".
C12_WitnessTitle ==
    LET view == FilteredBookmarks(bookmarks, searchQuery, filterCategory)
    IN /\ searchQuery = "react"
       /\ \E k \in DOMAIN view : view[k].title = "React Docs"

\* ------------------------------------------------------------------ C13
\* C13: an entry leaves the catalog only by deleteBookmark of its id: in every
\* step, the ids that are in the catalog before and not after are ids deleted in
\* that step; so an entry an import appended during a run stays through the
\* run's later batch commits.
C13_OnlyDeleteRemoves ==
    [][Ids(bookmarks) \ Ids(bookmarks') \subseteq deleted' \ deleted]_vars

\* ------------------------------------------------------------------ C14
\* In this step run r has handled a response that did not raise.
C14_HandledWithoutRaise(r) ==
    /\ r \in DOMAIN runs /\ r \in DOMAIN runs'
    /\ runs[r].pc = "awaiting"
    /\ runs'[r].received = runs[r].received + 1
    /\ runs'[r].raised = runs[r].raised

\* The ids of the entries the response handled in this step has answered.
C14_AnsweredNow(r) == DOMAIN runs'[r].answered \ DOMAIN runs[r].answered

\* C14: when a run handles a response that does not raise, the run has not
\* failed and alerts nothing, it goes on to the next batch if there is one,
\* every entry of the batch that the response answered with no item is
\* unprocessed in the catalog after the commit, and every catalog entry that no
\* item answered and that is still there is as it was: an item whose url is the
\* url of no entry of the batch changes nothing.
C14_PartialAndMissAreNoErrors ==
    [][\A r \in DOMAIN runs :
         C14_HandledWithoutRaise(r) =>
            /\ runs'[r].pc # "failed"
            /\ runs'[r].alerts = runs[r].alerts
            /\ runs[r].idx < Len(runs[r].batches) =>
                  /\ runs'[r].pc = "awaiting"
                  /\ runs'[r].idx = runs[r].idx + 1
            /\ \A j \in DOMAIN bookmarks' :
                  bookmarks'[j].id \in Ids(CurrentBatch(r)) \ C14_AnsweredNow(r)
                     => ~bookmarks'[j].processed
            /\ \A i \in DOMAIN bookmarks, j \in DOMAIN bookmarks' :
                  (bookmarks[i].id = bookmarks'[j].id
                   /\ bookmarks[i].id \notin C14_AnsweredNow(r))
                     => bookmarks'[j] = bookmarks[i]]_vars

\* A run is at a later batch after a response that answered some entries of the
\* first batch and left one out, and that carried an item for the url of an entry
\* of another batch; both entries are in the catalog, unprocessed.
C14_Witness ==
    \E r \in Awaiting :
        LET run == runs[r]
        IN /\ run.idx >= 2 /\ run.raised = 0
           /\ \E i, j, k \in DOMAIN bookmarks :
                 /\ bookmarks[i].id \in Ids(run.batches[1]) \ DOMAIN run.answered
                 /\ ~bookmarks[i].processed
                 /\ bookmarks[j].id \in Ids(run.batches[1]) \cap DOMAIN run.answered
                 /\ bookmarks[k].url \in run.missed
                 /\ bookmarks[k].id \notin Ids(run.batches[1])
                 /\ ~bookmarks[k].processed

\* ------------------------------------------------------------------ C15
\* C15: when a run handles a response that does not raise, every entry of the
\* catalog before the commit is in the catalog after it, with the same id, url,
\* title and addedAt; if an item answered it, it is processed with that item's
\* category, description and tags; if none did, it is identical.
C15_MergeFrame ==
    [][\A r \in DOMAIN runs :
         C14_HandledWithoutRaise(r) =>
            \A i \in DOMAIN bookmarks :
               LET b == bookmarks[i]
               IN \E j \in DOMAIN bookmarks' :
                     LET c == bookmarks'[j]
                     IN /\ c.id = b.id /\ c.url = b.url
                        /\ c.title = b.title /\ c.addedAt = b.addedAt
                        /\ IF b.id \in C14_AnsweredNow(r)
                           THEN C3_Enriched(c, runs'[r].answered[b.id])
                           ELSE c = b]_vars

\* ------------------------------------------------------------------ C16
\* In this step run r ends after its last batch, every response of the run held
\* one well-formed item per input item, and no import was applied and no entry
\* deleted since the run started.
C16_CompleteQuietRunEnds(r) ==
    /\ r \in DOMAIN runs /\ r \in DOMAIN runs'
    /\ runs[r].pc = "awaiting"
    /\ runs'[r].pc = "done"
    /\ runs'[r].complete
    /\ clock = runs[r].startClock
    /\ deleted = runs[r].startDeleted

\* C16: when such a run ends, every entry of the catalog, which is the catalog
\* the run started from, is processed.
C16_CompleteRunEnrichesAll ==
    [][\A r \in DOMAIN runs :
         C16_CompleteQuietRunEnds(r) =>
            /\ Ids(bookmarks') = Ids(runs[r].updatedBookmarksMap)
            /\ \A j \in DOMAIN bookmarks' : bookmarks'[j].processed]_vars

\* ------------------------------------------------------------------ C17
\* C17: the busy flag is set exactly while a run is in flight, from its start
\* with at least one unprocessed entry to its end, and whenever it is set it is
\* cleared again, the run finishing its batches or failing, given that every
\* call to the service returns or fails.
C17_BusyFlagLifecycle ==
    /\ [](isProcessing <=> Awaiting # {})
    /\ isProcessing ~> ~isProcessing

\* A first run has failed and a second run has finished all its batches; the
\* flag is cleared.
C17_Witness ==
    /\ Len(runs) = 2
    /\ runs[1].pc = "failed"
    /\ runs[2].pc = "done" /\ runs[2].nBatches = 3
    /\ ~isProcessing

\* ------------------------------------------------------------------ C18
\* C18: a click on Process with no unprocessed entry in the catalog starts no
\* run (so no call is made) and leaves the catalog, the store and the busy flag
\* as they are; otherwise the batches of the run it starts hold, in catalog
\* order, exactly the entries of the catalog that are unprocessed at that moment.
\* When a run handles a response, the entries it enriches are entries of its
\* batches, and the entries that were processed when it started are in its map
\* as they were.
C18_RunInputIsUnprocessed ==
    [][/\ ProcessUnprocessedBookmarks =>
             IF \A i \in DOMAIN bookmarks : bookmarks[i].processed
             THEN /\ runs' = runs
                  /\ bookmarks' = bookmarks
                  /\ storage' = storage
                  /\ isProcessing' = isProcessing
             ELSE /\ Len(runs') = Len(runs) + 1
                  /\ C7_Concat(runs'[Len(runs')].batches)
                        = SelectSeq(bookmarks, LAMBDA b : ~b.processed)
       /\ \A r \in DOMAIN runs :
             C14_HandledWithoutRaise(r) =>
                /\ C14_AnsweredNow(r) \subseteq Ids(runs[r].unprocessed)
                /\ \A i \in DOMAIN bookmarks' :
                      bookmarks'[i].id \notin Ids(runs[r].unprocessed)
                         => \E k \in DOMAIN runs[r].updatedBookmarksMap :
                               /\ runs[r].updatedBookmarksMap[k] = bookmarks'[i]
                               /\ bookmarks'[i].processed]_vars

\* After one import and a run that processed every entry, Process was clicked
\* once more: no run was started, and the catalog is fully processed.
C18_Witness ==
    /\ nActions = 3 /\ mounted
    /\ Len(importLog) = 2 /\ deleted = {}
    /\ Len(runs) = 1 /\ runs[1].pc = "done"
    /\ bookmarks # <<>>
    /\ \A i \in DOMAIN bookmarks : bookmarks[i].processed

\* A second run is in flight over a catalog that holds entries an earlier run
\* has processed: they are in its map and in none of its batches.
C18_WitnessSecondRun ==
    /\ Len(runs) = 2 /\ runs[2].pc = "awaiting" /\ runs[2].idx >= 2
    /\ \E k \in DOMAIN runs[2].updatedBookmarksMap :
          /\ runs[2].updatedBookmarksMap[k].processed
          /\ runs[2].updatedBookmarksMap[k].id \notin Ids(runs[2].unprocessed)

\* ------------------------------------------------------------------ C19
\* C19: when the read of a source is applied, the catalog keeps its entries and
\* gets at most 50 more after them; each new entry is unprocessed, without
\* category, description and tags, and made from one of the first 50 records of
\* the source (the id of a new entry counts the records from the start of the
\* source), later records after earlier ones; no record past the 50th is added,
\* whatever was dropped as a duplicate before it.
C19_ImportBound ==
    [][\A s \in ImportSourceIds :
         importLog' = Append(importLog, [ev |-> "load", src |-> s]) =>
            LET old == Len(bookmarks)
                added == SubSeq(bookmarks', old + 1, Len(bookmarks'))
            IN /\ Len(bookmarks') >= old
               /\ SubSeq(bookmarks', 1, old) = bookmarks
               /\ Len(added) <= 50
               /\ \A k \in DOMAIN added :
                     LET at == added[k].id - nextId
                     IN /\ at \in 1..50 /\ at \in DOMAIN Source(s)
                        /\ added[k].url = Source(s)[at].href
                        /\ ~added[k].processed
                        /\ added[k].category = JUndef
                        /\ added[k].description = JUndef
                        /\ added[k].tags = JUndef
                        /\ k > 1 => added[k - 1].id < added[k].id]_vars

\* The long source was imported after the first one: its first 21 records were
\* dropped as duplicates, records 22 to 50 were appended, records 51 and 52 not.
C19_Witness ==
    /\ importLog = << [ev |-> "upload", src |-> 1], [ev |-> "load", src |-> 1],
                      [ev |-> "upload", src |-> 3], [ev |-> "load", src |-> 3] >>
    /\ Len(bookmarks) = 50
    /\ bookmarks[22].url = 22
    /\ bookmarks[50].url = 50

====
